---------------------------- MODULE Spec2Model ----------------------------
(***************************************************************************)
(* The per-user DuckDB connection pool of duckdb_openhexa                  *)
(* (src/duckdb_openhexa/dialect.py): DuckDBOpenHexaDialect.connect, its    *)
(* class-level pool _connection_pool guarded by _pool_lock, the creation   *)
(* path of _get_or_create_connection and the PooledConnectionWrapper that  *)
(* connect returns.                                                        *)
(*                                                                         *)
(* Several request threads call connect concurrently.  The statements that *)
(* run under `with cls._pool_lock` are separate steps of the thread that   *)
(* holds the lock, so that what the lock excludes is checked and not       *)
(* assumed.  The clock (time.time()) and the health of a connection are    *)
(* moved by the environment.                                               *)
(*                                                                         *)
(* With it: the download-URL cache of client.py (query_file_download_url   *)
(* and the module-level dict _download_url_cache), the parsing of a        *)
(* file_path into workspace, dataset, version and filename, and the older  *)
(* pool of connection_pool.py, keyed by the database path alone, that      *)
(* patched_connect puts under duckdb_engine.Dialect.                       *)
(***************************************************************************)
EXTENDS Integers, FiniteSets, Sequences, TLC

\* ------------------------------------------------------------------ bounds

\* Connections (duckdb.connect calls that succeed) in one behaviour.
MaxConns == 2

\* The clock runs from 0 to MaxTime.
MaxTime == 2

\* _CONNECTION_TTL_SECONDS (dialect.py:18), set through the environment
\* variable DUCKDB_OH_CONNECTION_TTL_MINUTES; taken small, in clock ticks.
CONNECTION_TTL_SECONDS == 1

\* _CACHE_SIZE (client.py:18), set through the environment variable
\* OPENHEXA_CACHE_SIZE; taken small.
CACHE_SIZE == 2

\* _CACHE_TTL_SECONDS (client.py:19), set through the environment variable
\* GCS_SIGNED_BUCKET_CACHE_TTL_MINUTES; taken small, in clock ticks.
CACHE_TTL_SECONDS == 2

\* The dataset files a call can ask for.
MaxFiles == 3

\* The longest file_path text.
MaxPathLen == 7

\* ------------------------------------------------------------------ values

Threads == {"t1", "t2"}

NoThread == "none"

\* g.user.username of the request, or "default" (dialect.py:139-145).
Users == {"default", "alice"}

\* database_path is None when connect gets neither cargs nor "database".
NoPath == "None"

MemoryPath == ":memory:"

DbPaths == {"db1", MemoryPath, NoPath}

\* The ext dict of a call (the non-core config keys): 0 is the empty dict.
ExtVals == {0, 1}

ConnIds == 1..MaxConns

NoConn == 0

\* cache_key = (user_id, database_path)
PoolKeys == Users \X DbPaths

\* The owner of a connection the parent Dialect.connect built, and of an
\* identifier no duckdb.connect has returned yet.
ParentKey == <<"parent", NoPath>>

Unborn == <<"unborn", NoPath>>

NoReq == [user |-> "default", path |-> NoPath]

\* What connect gave its caller: nothing yet ("none"), an exception
\* ("raised"), a PooledConnectionWrapper ("pooled") or the parent's
\* ConnectionWrapper ("parent"); ext is the ext dict of the call.
NoRet == [kind |-> "none", conn |-> NoConn, closed |-> FALSE, ext |-> 0]

Raised == [kind |-> "raised", conn |-> NoConn, closed |-> FALSE, ext |-> 0]

\* The settings duckdb.connect takes as its config dict: each of the keys
\* is unset, or has the value of the environment variable, or the value of
\* the caller's core config.
LimitKeys == {"temp_directory", "memory_limit", "threads"}

Unset == "unset"

NoLimits == [k \in LimitKeys |-> Unset]

UnbornConn ==
    [key |-> Unborn, open |-> FALSE, dead |-> FALSE, inserted |-> FALSE,
     evicted |-> FALSE, setup_runs |-> 0, udf |-> FALSE, cfg |-> 0,
     ext_loaded |-> FALSE, limits |-> NoLimits]

\* The arguments of a patched_connect call that is not running.
NoPathReq == [path |-> NoPath, config |-> NoLimits]

\* A file_path is modelled by its parts, file_path.split("/"): paths
\* "w/d/v/<file>" of four parts, and the path "onlytwo/parts".
ValidPaths == {<<"w", "d", "v", f>> : f \in 1..MaxFiles}

ShortPath == <<"onlytwo", "parts">>

FilePaths == ValidPaths \cup {ShortPath}

NoPathYet == <<>>

\* What the GraphQL service does with the query of a call: it answers with
\* a download URL, it answers without one (glom's default None), or
\* client.execute raises.
SignedUrl == "https://signed"

NoUrl == "None"

Failure == "TransportError"

Answers == {SignedUrl, NoUrl, Failure}

NoCall == [path |-> NoPathYet, answer |-> NoUrl]

\* cached_url, cached_time before line 147 binds them.
NoCached == [url |-> NoUrl, time |-> -1]

\* What query_file_download_url gave its caller: nothing yet ("none"), the
\* cached url ("hit"), the url it fetched and stored ("fetched"), None after
\* the external call failed ("failed"), None after an exception of the cache
\* bookkeeping was caught by `except Exception` ("lost"), or an exception it
\* raised ("KeyError", "ValueError"); path is the file_path of that call.
NoResult == [kind |-> "none", url |-> NoUrl, path |-> NoPathYet]

\* A file_path as text: a string of at most MaxPathLen characters, each a
\* letter or the separator.
Slash == "/"

Chars == {"x", Slash}

RECURSIVE Texts(_)
Texts(n) ==
    IF n = 0 THEN {<<>>}
    ELSE LET shorter == Texts(n - 1)
         IN  shorter \cup {Append(s, c) : s \in shorter, c \in Chars}

PathTexts == Texts(MaxPathLen)

\* No call has parsed a path yet.
NoParsed ==
    [file_path |-> <<>>, kind |-> "none", workspace_slug |-> <<>>,
     dataset_slug |-> <<>>, version |-> <<>>, filename |-> <<>>]

\* ------------------------------------------------------------------ state

VARIABLES
    connection_pool,  \* cls._connection_pool: a dict, a function from the
                      \* cache keys present to (conn, created_at)
    pool_lock,        \* cls._pool_lock: the thread that holds it, or NoThread
    now,              \* time.time()
    conns,            \* every DuckDB connection: its owner and its state
    pc,               \* where each thread is in connect
    req,              \* the arguments of the connect call a thread is in
    conn,             \* the local conn / pooled_conn of the thread
    age_seconds,      \* the local age_seconds of the thread
    built,            \* whether the thread's acquire took the creation path
    ret,              \* what the thread's last connect call gave its caller
    download_url_cache,  \* client._download_url_cache: a dict in insertion
                         \* order, file_path -> (url, timestamp)
    cpc,              \* where each thread is in query_file_download_url
    call,             \* the file_path of the call a thread is in, and the
                      \* answer the service gives if the call asks it
    cached,           \* the locals cached_url, cached_time of the thread
    oldest_key,       \* the local oldest_key of the thread
    cret,             \* what the thread's last query_file_download_url gave
    path_pool,        \* connection_pool._connection_pool: a dict,
                      \* database_path -> conn
    path_lock,        \* connection_pool._pool_lock: its holder, or NoThread
    ppc,              \* where each thread is in patched_connect
    preq,             \* database_path and core_config of that call
    pconn,            \* the local conn / pooled_conn of the thread
    pret,             \* what the thread's last patched_connect gave
    parsed            \* the file_path a query_file_download_url call was
                      \* given, as text, and what lines 163-169 made of it

\* The state of the download-URL cache and of the calls that use it.
cachevars == <<download_url_cache, cpc, call, cached, oldest_key, cret>>

\* The state of the connection pool and of the connect calls.
poolvars == <<connection_pool, pool_lock, conns, pc, req, conn, age_seconds,
              built, ret>>

\* The state of the pool of connection_pool.py and of the calls of the
\* connect it patches into duckdb_engine.Dialect.
pathvars == <<path_pool, path_lock, ppc, preq, pconn, pret>>

vars == <<connection_pool, pool_lock, now, conns, pc, req, conn, age_seconds,
          built, ret, download_url_cache, cpc, call, cached, oldest_key, cret,
          path_pool, path_lock, ppc, preq, pconn, pret, parsed>>

\* ----------------------------------------------------------------- helpers

\* (mutant) the key leaves the user out, as the key of connection_pool.py
\* does.
CacheKey_path_only(t) == <<"default", req[t].path>>

\* cache_key = (user_id, database_path)                       dialect.py:49
CacheKey(t) == <<req[t].user, req[t].path>>

\* (mutant) the test for ":memory:" is missing.
UsesPool_memory(path) == path # NoPath

\* `if database_path and database_path != ":memory:"`         dialect.py:137
UsesPool(path) == path # NoPath /\ path # MemoryPath

\* The identifier the next successful duckdb.connect returns.
FreshId == CHOOSE c \in ConnIds :
               /\ conns[c].key = Unborn
               /\ \A d \in ConnIds : conns[d].key = Unborn => c <= d

HasFresh == \E c \in ConnIds : conns[c].key = Unborn

\* (mutant) the comparison is turned around: young entries expire.
Expired_inverted(age) == age < CONNECTION_TTL_SECONDS

\* (mutant) an entry expires as soon as its age reaches the TTL.
Expired_at_ttl(age) == age >= CONNECTION_TTL_SECONDS

\* `if age_seconds > _CONNECTION_TTL_SECONDS`                  dialect.py:58
Expired(age) == age > CONNECTION_TTL_SECONDS

\* conn.execute("SELECT 1") returns iff the connection is open and healthy.
ProbeOk(c) == conns[c].open /\ ~conns[c].dead

\* A statement executed on a connection raises iff ProbeOk fails for it.
Usable(c) == conns[c].open /\ ~conns[c].dead

\* cls._connection_pool[k] = e                                dialect.py:92
PoolPut(k, e) ==
    [x \in DOMAIN connection_pool \cup {k} |->
        IF x = k THEN e ELSE connection_pool[x]]

\* del cls._connection_pool[k]                            dialect.py:64, 73
PoolDel(k) == [x \in DOMAIN connection_pool \ {k} |-> connection_pool[x]]

\* -------------------------------------------------------------------- Init

Init ==
    /\ connection_pool = [k \in {} |-> 0]
    /\ pool_lock = NoThread
    /\ now = 0
    /\ conns = [c \in ConnIds |-> UnbornConn]
    /\ pc = [t \in Threads |-> "idle"]
    /\ req = [t \in Threads |-> NoReq]
    /\ conn = [t \in Threads |-> NoConn]
    /\ age_seconds = [t \in Threads |-> 0]
    /\ built = [t \in Threads |-> FALSE]
    /\ ret = [t \in Threads |-> NoRet]
    /\ download_url_cache = <<>>
    /\ cpc = [t \in Threads |-> "idle"]
    /\ call = [t \in Threads |-> NoCall]
    /\ cached = [t \in Threads |-> NoCached]
    /\ oldest_key = [t \in Threads |-> NoPathYet]
    /\ cret = [t \in Threads |-> NoResult]
    /\ path_pool = [k \in {} |-> 0]
    /\ path_lock = NoThread
    /\ ppc = [t \in Threads |-> "idle"]
    /\ preq = [t \in Threads |-> NoPathReq]
    /\ pconn = [t \in Threads |-> NoConn]
    /\ pret = [t \in Threads |-> NoRet]
    /\ parsed = NoParsed


\* ----------------------------------------------------------------- connect

\* (mutant) the lock excludes nobody.
acquire_lock_unguarded(t) == pool_lock' = t

\* `with cls._pool_lock:` a threading.Lock is taken by one thread at a time
\*                                                            dialect.py:51
acquire_lock(t) ==
    /\ pool_lock = NoThread
    /\ pool_lock' = t

\* DuckDBOpenHexaDialect.connect for a path that uses the pool, up to the
\* point where _get_or_create_connection holds the lock (dialect.py:127-160,
\* 49-51): the arguments are parsed and the user is read from the Flask
\* context, which touches nothing shared, so a thread that waits for the lock
\* is a thread that has not taken this step yet.  The caller has dropped the
\* result of its previous call.
Connect(t, user, path) ==
    /\ pc[t] = "idle"
    /\ UsesPool(path)
    /\ acquire_lock(t)
    /\ pc' = [pc EXCEPT ![t] = "lookup"]
    /\ req' = [req EXCEPT ![t] = [user |-> user, path |-> path]]
    /\ ret' = [ret EXCEPT ![t] = NoRet]
    /\ UNCHANGED <<connection_pool, now, conns, conn, age_seconds, built>>
    /\ UNCHANGED cachevars
    /\ UNCHANGED pathvars
    /\ UNCHANGED parsed

\* connect for ":memory:" or no path (dialect.py:193-195): the parent
\* Dialect.connect of duckdb_engine opens a connection of its own with
\* duckdb.connect and returns it in a plain ConnectionWrapper (what the
\* parent does with the options of the call is not recorded).
ParentConnect(t, path) ==
    /\ pc[t] = "idle"
    /\ ~UsesPool(path)
    /\ HasFresh
    /\ LET c == FreshId IN
       /\ conns' = [conns EXCEPT ![c] =
                      [UnbornConn EXCEPT !.key = ParentKey, !.open = TRUE]]
       /\ ret' = [ret EXCEPT ![t] =
                    [kind |-> "parent", conn |-> c, closed |-> FALSE, ext |-> 0]]
    /\ UNCHANGED <<connection_pool, pool_lock, now, pc, req, conn, age_seconds, built>>
    /\ UNCHANGED cachevars
    /\ UNCHANGED pathvars
    /\ UNCHANGED parsed

\* ------------------------------------------------ _get_or_create_connection

\* An exception leaves _get_or_create_connection and connect: the `with`
\* block releases the lock and the caller of connect gets the exception.
\* (req keeps the arguments of the call that raised.)
Raise(t) ==
    /\ pc' = [pc EXCEPT ![t] = "idle"]
    /\ conn' = [conn EXCEPT ![t] = NoConn]
    /\ age_seconds' = [age_seconds EXCEPT ![t] = 0]
    /\ built' = [built EXCEPT ![t] = FALSE]
    /\ ret' = [ret EXCEPT ![t] = Raised]
    /\ UNCHANGED req

\* `if cache_key in cls._connection_pool` is false             dialect.py:53
LookupMiss(t) ==
    /\ pc[t] = "lookup"
    /\ CacheKey(t) \notin DOMAIN connection_pool
    /\ pc' = [pc EXCEPT ![t] = "construct"]
    /\ UNCHANGED <<connection_pool, pool_lock, now, conns, req, conn, age_seconds, built, ret>>
    /\ UNCHANGED cachevars
    /\ UNCHANGED pathvars
    /\ UNCHANGED parsed

\* The entry is older than the TTL: conn.close(), then the entry is deleted
\*                                                          dialect.py:58-64
LookupExpired(t) ==
    /\ pc[t] = "lookup"
    /\ CacheKey(t) \in DOMAIN connection_pool
    /\ LET k == CacheKey(t)
           e == connection_pool[k]
       IN  /\ Expired(now - e.created_at)
           /\ age_seconds' = [age_seconds EXCEPT ![t] = now - e.created_at]
           /\ conns' = [conns EXCEPT ![e.conn].open = FALSE,
                                     ![e.conn].evicted = TRUE]
           /\ connection_pool' = PoolDel(k)
    /\ pc' = [pc EXCEPT ![t] = "construct"]
    /\ UNCHANGED <<pool_lock, now, req, conn, built, ret>>
    /\ UNCHANGED cachevars
    /\ UNCHANGED pathvars
    /\ UNCHANGED parsed

\* (mutant) the construction-time setup is run again on the reused connection.
LookupReuse_resetup(t) ==
    /\ pc[t] = "lookup"
    /\ CacheKey(t) \in DOMAIN connection_pool
    /\ LET e == connection_pool[CacheKey(t)]
       IN  /\ ~Expired(now - e.created_at)
           /\ ProbeOk(e.conn)
           /\ age_seconds' = [age_seconds EXCEPT ![t] = now - e.created_at]
           /\ conn' = [conn EXCEPT ![t] = e.conn]
           /\ conns' = [conns EXCEPT ![e.conn].setup_runs = conns[e.conn].setup_runs + 1]
    /\ pool_lock' = NoThread
    /\ pc' = [pc EXCEPT ![t] = "post"]
    /\ UNCHANGED <<connection_pool, now, req, built, ret>>
    /\ UNCHANGED cachevars
    /\ UNCHANGED pathvars
    /\ UNCHANGED parsed

\* (mutant) a reuse renews the entry: the TTL runs from the last use.
LookupReuse_refreshes(t) ==
    /\ pc[t] = "lookup"
    /\ CacheKey(t) \in DOMAIN connection_pool
    /\ LET e == connection_pool[CacheKey(t)]
       IN  /\ ~Expired(now - e.created_at)
           /\ ProbeOk(e.conn)
           /\ age_seconds' = [age_seconds EXCEPT ![t] = now - e.created_at]
           /\ conn' = [conn EXCEPT ![t] = e.conn]
           /\ connection_pool' =
                 PoolPut(CacheKey(t), [conn |-> e.conn, created_at |-> now])
    /\ pool_lock' = NoThread
    /\ pc' = [pc EXCEPT ![t] = "post"]
    /\ UNCHANGED <<now, conns, req, built, ret>>
    /\ UNCHANGED cachevars
    /\ UNCHANGED pathvars
    /\ UNCHANGED parsed

\* The entry is within the TTL and "SELECT 1" succeeds: the pooled connection
\* is returned and the lock released                        dialect.py:65-70
LookupReuse(t) ==
    /\ pc[t] = "lookup"
    /\ CacheKey(t) \in DOMAIN connection_pool
    /\ LET e == connection_pool[CacheKey(t)]
       IN  /\ ~Expired(now - e.created_at)
           /\ ProbeOk(e.conn)
           /\ age_seconds' = [age_seconds EXCEPT ![t] = now - e.created_at]
           /\ conn' = [conn EXCEPT ![t] = e.conn]
    /\ pool_lock' = NoThread
    /\ pc' = [pc EXCEPT ![t] = "post"]
    /\ UNCHANGED <<connection_pool, now, conns, req, built, ret>>
    /\ UNCHANGED cachevars
    /\ UNCHANGED pathvars
    /\ UNCHANGED parsed

\* (mutant) the exception of the probe is not caught.
LookupDead_raises(t) ==
    /\ pc[t] = "lookup"
    /\ CacheKey(t) \in DOMAIN connection_pool
    /\ LET e == connection_pool[CacheKey(t)]
       IN  /\ ~Expired(now - e.created_at)
           /\ ~ProbeOk(e.conn)
    /\ Raise(t)
    /\ pool_lock' = NoThread
    /\ UNCHANGED <<connection_pool, now, conns>>
    /\ UNCHANGED cachevars
    /\ UNCHANGED pathvars
    /\ UNCHANGED parsed

\* The entry is within the TTL and "SELECT 1" raises: the entry is deleted,
\* the connection is not closed                             dialect.py:71-73
LookupDead(t) ==
    /\ pc[t] = "lookup"
    /\ CacheKey(t) \in DOMAIN connection_pool
    /\ LET k == CacheKey(t)
           e == connection_pool[k]
       IN  /\ ~Expired(now - e.created_at)
           /\ ~ProbeOk(e.conn)
           /\ age_seconds' = [age_seconds EXCEPT ![t] = now - e.created_at]
           /\ conns' = [conns EXCEPT ![e.conn].evicted = TRUE]
           /\ connection_pool' = PoolDel(k)
    /\ pc' = [pc EXCEPT ![t] = "construct"]
    /\ UNCHANGED <<pool_lock, now, req, conn, built, ret>>
    /\ UNCHANGED cachevars
    /\ UNCHANGED pathvars
    /\ UNCHANGED parsed

\* (mutant) an exception of duckdb.connect leaves the lock held.
Construct_keeps_lock(t) ==
    /\ pc[t] = "construct"
    /\ \/ /\ HasFresh
          /\ LET c == FreshId IN
             /\ conns' = [conns EXCEPT ![c] =
                            [UnbornConn EXCEPT !.key = CacheKey(t), !.open = TRUE]]
             /\ conn' = [conn EXCEPT ![t] = c]
          /\ built' = [built EXCEPT ![t] = TRUE]
          /\ pc' = [pc EXCEPT ![t] = "setup"]
          /\ UNCHANGED <<connection_pool, pool_lock, now, req, age_seconds, ret>>
       \/ /\ Raise(t)
          /\ UNCHANGED <<connection_pool, pool_lock, now, conns>>
    /\ UNCHANGED cachevars
    /\ UNCHANGED pathvars
    /\ UNCHANGED parsed

\* conn = duckdb.connect(database_path)                        dialect.py:77
\* It returns a new connection, or raises.
Construct(t) ==
    /\ pc[t] = "construct"
    /\ \/ /\ HasFresh
          /\ LET c == FreshId IN
             /\ conns' = [conns EXCEPT ![c] =
                            [UnbornConn EXCEPT !.key = CacheKey(t), !.open = TRUE]]
             /\ conn' = [conn EXCEPT ![t] = c]
          /\ built' = [built EXCEPT ![t] = TRUE]
          /\ pc' = [pc EXCEPT ![t] = "setup"]
          /\ UNCHANGED <<connection_pool, pool_lock, now, req, age_seconds, ret>>
       \/ /\ Raise(t)
          /\ pool_lock' = NoThread
          /\ UNCHANGED <<connection_pool, now, conns>>
    /\ UNCHANGED cachevars
    /\ UNCHANGED pathvars
    /\ UNCHANGED parsed

\* The construction-time setup of a new connection: SET http_keep_alive,
\* SET enable_http_metadata_cache, INSTALL/LOAD httpfs and parquet, then
\* _register_udfs, where create_function registers get_dataset_file_url or
\* its exception is logged and swallowed         dialect.py:79-88, 95-118
configure(c, udf_ok) ==
    [conns EXCEPT ![c].setup_runs = conns[c].setup_runs + 1,
                  ![c].udf = udf_ok]

\* (mutant) the entry is stored right after duckdb.connect, before the
\* statements that may raise.
Setup_stores_first(t, udf_ok) ==
    /\ pc[t] = "setup"
    /\ connection_pool' =
          PoolPut(CacheKey(t), [conn |-> conn[t], created_at |-> now])
    /\ pool_lock' = NoThread
    /\ \/ /\ Usable(conn[t])
          /\ conns' = [configure(conn[t], udf_ok) EXCEPT ![conn[t]].inserted = TRUE]
          /\ pc' = [pc EXCEPT ![t] = "post"]
          /\ UNCHANGED <<now, req, conn, age_seconds, built, ret>>
       \/ /\ Raise(t)
          /\ conns' = [conns EXCEPT ![conn[t]].inserted = TRUE]
          /\ UNCHANGED now
    /\ UNCHANGED cachevars
    /\ UNCHANGED pathvars
    /\ UNCHANGED parsed

\* The settings, the extensions, the UDFs, then the entry is stored with the
\* current time and the connection returned                 dialect.py:79-93
\* A failing SET / INSTALL / LOAD raises: nothing is stored and the new
\* connection is left open.
Setup(t, udf_ok) ==
    /\ pc[t] = "setup"
    /\ \/ /\ Usable(conn[t])
          /\ conns' = [configure(conn[t], udf_ok) EXCEPT ![conn[t]].inserted = TRUE]
          /\ connection_pool' =
                PoolPut(CacheKey(t), [conn |-> conn[t], created_at |-> now])
          /\ pool_lock' = NoThread
          /\ pc' = [pc EXCEPT ![t] = "post"]
          /\ UNCHANGED <<now, req, conn, age_seconds, built, ret>>
       \/ /\ Raise(t)
          /\ pool_lock' = NoThread
          /\ UNCHANGED <<connection_pool, now, conns>>
    /\ UNCHANGED cachevars
    /\ UNCHANGED pathvars
    /\ UNCHANGED parsed

\* -------------------------------------------------------- connect, the rest

\* `for extension in preload_extensions: pooled_conn.execute("LOAD ...")`
\* and the register_filesystem calls                     dialect.py:162-168
load_declared(c, preload) ==
    [conns EXCEPT ![c].ext_loaded = conns[c].ext_loaded \/ preload]

\* apply_config(self, pooled_conn, ext): one SET per key of ext, none for the
\* empty dict                                                dialect.py:171
apply_config(cs, c, ext) ==
    [cs EXCEPT ![c].cfg = IF ext # 0 THEN ext ELSE cs[c].cfg]

\* (mutant) the options of the call are applied only to a connection the
\* call has built.
Finish_config_on_build(t, ext, preload) ==
    /\ pc[t] = "post"
    /\ LET c == conn[t]
           stmts == built[t] /\ (preload \/ ext # 0)
       IN  \/ /\ stmts => Usable(c)
              /\ conns' = IF built[t]
                          THEN apply_config(load_declared(c, preload), c, ext)
                          ELSE conns
              /\ ret' = [ret EXCEPT ![t] =
                           [kind |-> "pooled", conn |-> c, closed |-> FALSE,
                            ext |-> ext]]
              /\ pc' = [pc EXCEPT ![t] = "idle"]
              /\ req' = [req EXCEPT ![t] = NoReq]
              /\ conn' = [conn EXCEPT ![t] = NoConn]
              /\ age_seconds' = [age_seconds EXCEPT ![t] = 0]
              /\ built' = [built EXCEPT ![t] = FALSE]
              /\ UNCHANGED <<connection_pool, pool_lock, now>>
           \/ /\ stmts /\ ~Usable(c)
              /\ Raise(t)
              /\ UNCHANGED <<connection_pool, pool_lock, now, conns>>
    /\ UNCHANGED cachevars
    /\ UNCHANGED pathvars
    /\ UNCHANGED parsed

\* The rest of connect after the acquire (dialect.py:162-191): the declared
\* extensions and filesystems, apply_config, and the PooledConnectionWrapper
\* around the pooled connection.  A statement on a closed or dead connection
\* raises.  ext and preload are arguments of the connect call; nothing reads
\* them before this point, so they are drawn here.
Finish(t, ext, preload) ==
    /\ pc[t] = "post"
    /\ LET c == conn[t]
           stmts == preload \/ ext # 0
       IN  \/ /\ stmts => Usable(c)
              /\ conns' = apply_config(load_declared(c, preload), c, ext)
              /\ ret' = [ret EXCEPT ![t] =
                           [kind |-> "pooled", conn |-> c, closed |-> FALSE,
                            ext |-> ext]]
              /\ pc' = [pc EXCEPT ![t] = "idle"]
              /\ req' = [req EXCEPT ![t] = NoReq]
              /\ conn' = [conn EXCEPT ![t] = NoConn]
              /\ age_seconds' = [age_seconds EXCEPT ![t] = 0]
              /\ built' = [built EXCEPT ![t] = FALSE]
              /\ UNCHANGED <<connection_pool, pool_lock, now>>
           \/ /\ stmts /\ ~Usable(c)
              /\ Raise(t)
              /\ UNCHANGED <<connection_pool, pool_lock, now, conns>>
    /\ UNCHANGED cachevars
    /\ UNCHANGED pathvars
    /\ UNCHANGED parsed

\* (mutant) close() of the wrapper closes the pooled connection, as the
\* close() of the ConnectionWrapper it overrides does.
WrapperClose_real(t) ==
    /\ pc[t] = "idle"
    /\ ret[t].kind = "pooled"
    /\ ~ret[t].closed
    /\ ret' = [ret EXCEPT ![t].closed = TRUE]
    /\ conns' = [conns EXCEPT ![ret[t].conn].open = FALSE]
    /\ UNCHANGED <<connection_pool, pool_lock, now, pc, req, conn, age_seconds, built>>
    /\ UNCHANGED cachevars
    /\ UNCHANGED pathvars
    /\ UNCHANGED parsed

\* PooledConnectionWrapper.close: self.closed = True      dialect.py:184-188
WrapperClose(t) ==
    /\ pc[t] = "idle"
    /\ ret[t].kind = "pooled"
    /\ ~ret[t].closed
    /\ ret' = [ret EXCEPT ![t].closed = TRUE]
    /\ UNCHANGED <<connection_pool, pool_lock, now, conns, pc, req, conn, age_seconds, built>>
    /\ UNCHANGED cachevars
    /\ UNCHANGED pathvars
    /\ UNCHANGED parsed

\* close of the plain ConnectionWrapper the parent connect returned: the
\* connection itself is closed.
ParentClose(t) ==
    /\ pc[t] = "idle"
    /\ ret[t].kind = "parent"
    /\ ~ret[t].closed
    /\ ret' = [ret EXCEPT ![t].closed = TRUE]
    /\ conns' = [conns EXCEPT ![ret[t].conn].open = FALSE]
    /\ UNCHANGED <<connection_pool, pool_lock, now, pc, req, conn, age_seconds, built>>
    /\ UNCHANGED cachevars
    /\ UNCHANGED pathvars
    /\ UNCHANGED parsed

\* ------------------------------------------------------------- environment

\* time.time() advances.
Tick ==
    /\ now < MaxTime
    /\ now' = now + 1
    /\ UNCHANGED <<connection_pool, pool_lock, conns, pc, req, conn, age_seconds, built, ret>>
    /\ UNCHANGED cachevars
    /\ UNCHANGED pathvars
    /\ UNCHANGED parsed

\* The connection of a pool entry stops answering (its database is
\* invalidated, its file is gone).
Kill(c) ==
    /\ \E k \in DOMAIN connection_pool : connection_pool[k].conn = c
    /\ conns[c].open
    /\ ~conns[c].dead
    /\ conns' = [conns EXCEPT ![c].dead = TRUE]
    /\ UNCHANGED <<connection_pool, pool_lock, now, pc, req, conn, age_seconds, built, ret>>
    /\ UNCHANGED cachevars
    /\ UNCHANGED pathvars
    /\ UNCHANGED parsed

\* ------------------------------------------------------ connection_pool.py

\* The state of the dialect's pool and of its connect calls, without the
\* connections themselves.
dialectvars == <<connection_pool, pool_lock, pc, req, conn, age_seconds,
                 built, ret>>

\* The owner of a connection get_or_create_connection built for a path.
PathPoolOwner == "connection_pool"

\* os.getenv("DUCKDB_TEMP_DIR"), os.getenv("DUCKDB_MEMORY_LIMIT"),
\* os.getenv("DUCKDB_THREADS") of the process: here the memory limit and the
\* threads are set                                  connection_pool.py:41-46
Environment ==
    [temp_directory |-> Unset, memory_limit |-> "env", threads |-> "env"]

\* The core config a call can supply: none, or a memory limit of its own.
CoreConfigs == {NoLimits, [NoLimits EXCEPT !["memory_limit"] = "caller"]}

\* final_config: the environment's values, then final_config.update(config)
\*                                                  connection_pool.py:40-50
final_config(config) ==
    [k \in LimitKeys |->
        IF config[k] # Unset THEN config[k] ELSE Environment[k]]

\* `if database_path and database_path != ":memory:"`   connection_pool.py:92
PatchUsesPool(path) == path # NoPath /\ path # MemoryPath

\* _connection_pool[p] = c                              connection_pool.py:63
PathPut(p, c) ==
    [x \in DOMAIN path_pool \cup {p} |-> IF x = p THEN c ELSE path_pool[x]]

\* del _connection_pool[p]                              connection_pool.py:34
PathDel(p) == [x \in DOMAIN path_pool \ {p} |-> path_pool[x]]

\* An exception leaves get_or_create_connection and patched_connect: the
\* `with` block releases the lock.
PathRaise(t) ==
    /\ ppc' = [ppc EXCEPT ![t] = "idle"]
    /\ pconn' = [pconn EXCEPT ![t] = NoConn]
    /\ pret' = [pret EXCEPT ![t] = Raised]
    /\ path_lock' = NoThread
    /\ UNCHANGED preq

\* patched_connect for a path that uses the pool, up to the point where
\* get_or_create_connection holds the lock (connection_pool.py:83-111, 23):
\* the path and the core config are taken from the arguments.
patched_connect(t, path, config) ==
    /\ ppc[t] = "idle"
    /\ PatchUsesPool(path)
    /\ path_lock = NoThread
    /\ path_lock' = t
    /\ ppc' = [ppc EXCEPT ![t] = "lookup"]
    /\ preq' = [preq EXCEPT ![t] = [path |-> path, config |-> config]]
    /\ pret' = [pret EXCEPT ![t] = NoRet]
    /\ UNCHANGED <<path_pool, pconn, now, conns>>
    /\ UNCHANGED <<dialectvars, cachevars, parsed>>

\* patched_connect for ":memory:" or no path: _original_connect opens a
\* connection of its own                          connection_pool.py:144-146
original_connect(t, path) ==
    /\ ppc[t] = "idle"
    /\ ~PatchUsesPool(path)
    /\ HasFresh
    /\ LET c == FreshId IN
       /\ conns' = [conns EXCEPT ![c] =
                      [UnbornConn EXCEPT !.key = ParentKey, !.open = TRUE]]
       /\ pret' = [pret EXCEPT ![t] =
                     [kind |-> "parent", conn |-> c, closed |-> FALSE, ext |-> 0]]
    /\ UNCHANGED <<path_pool, path_lock, ppc, preq, pconn, now>>
    /\ UNCHANGED <<dialectvars, cachevars, parsed>>

\* `if database_path in _connection_pool` is false       connection_pool.py:25
pool_miss(t) ==
    /\ ppc[t] = "lookup"
    /\ preq[t].path \notin DOMAIN path_pool
    /\ ppc' = [ppc EXCEPT ![t] = "construct"]
    /\ UNCHANGED <<path_pool, path_lock, preq, pconn, pret, now, conns>>
    /\ UNCHANGED <<dialectvars, cachevars, parsed>>

\* The path has a connection and "SELECT 1" succeeds: it is returned as it
\* is and the lock released                          connection_pool.py:26-31
pool_reuse(t) ==
    /\ ppc[t] = "lookup"
    /\ preq[t].path \in DOMAIN path_pool
    /\ LET c == path_pool[preq[t].path]
       IN  /\ ProbeOk(c)
           /\ pconn' = [pconn EXCEPT ![t] = c]
    /\ path_lock' = NoThread
    /\ ppc' = [ppc EXCEPT ![t] = "post"]
    /\ UNCHANGED <<path_pool, preq, pret, now, conns>>
    /\ UNCHANGED <<dialectvars, cachevars, parsed>>

\* "SELECT 1" raises: the entry is deleted, the connection is not closed
\*                                                   connection_pool.py:32-34
pool_dead(t) ==
    /\ ppc[t] = "lookup"
    /\ preq[t].path \in DOMAIN path_pool
    /\ LET c == path_pool[preq[t].path]
       IN  /\ ~ProbeOk(c)
           /\ conns' = [conns EXCEPT ![c].evicted = TRUE]
    /\ path_pool' = PathDel(preq[t].path)
    /\ ppc' = [ppc EXCEPT ![t] = "construct"]
    /\ UNCHANGED <<path_lock, preq, pconn, pret, now>>
    /\ UNCHANGED <<dialectvars, cachevars, parsed>>

\* final_config is merged and duckdb.connect(database_path,
\* config=final_config) returns a new connection with these settings, or
\* raises                                            connection_pool.py:39-56
pool_construct(t) ==
    /\ ppc[t] = "construct"
    /\ \/ /\ HasFresh
          /\ LET c == FreshId IN
             /\ conns' = [conns EXCEPT ![c] =
                            [UnbornConn EXCEPT
                                !.key = <<PathPoolOwner, preq[t].path>>,
                                !.open = TRUE,
                                !.limits = final_config(preq[t].config)]]
             /\ pconn' = [pconn EXCEPT ![t] = c]
          /\ ppc' = [ppc EXCEPT ![t] = "setup"]
          /\ UNCHANGED <<path_pool, path_lock, preq, pret>>
       \/ /\ PathRaise(t)
          /\ UNCHANGED <<path_pool, conns>>
    /\ UNCHANGED now
    /\ UNCHANGED <<dialectvars, cachevars, parsed>>

\* (mutant) the connection is stored before its settings are made.
pool_setup_stores_first(t) ==
    /\ ppc[t] = "setup"
    /\ \/ /\ path_pool' = PathPut(preq[t].path, pconn[t])
          /\ conns' = [conns EXCEPT ![pconn[t]].inserted = TRUE]
          /\ UNCHANGED <<path_lock, ppc, preq, pconn, pret>>
          /\ ~conns[pconn[t]].inserted
       \/ /\ conns[pconn[t]].inserted
          /\ conns' = [conns EXCEPT
                          ![pconn[t]].setup_runs = conns[pconn[t]].setup_runs + 1]
          /\ path_lock' = NoThread
          /\ ppc' = [ppc EXCEPT ![t] = "post"]
          /\ UNCHANGED <<path_pool, preq, pconn, pret>>
    /\ UNCHANGED now
    /\ UNCHANGED <<dialectvars, cachevars, parsed>>

\* SET http_keep_alive, SET enable_http_metadata_cache, then the connection
\* is stored under its path and returned; a failing SET raises and nothing
\* is stored                                         connection_pool.py:58-64
pool_setup(t) ==
    /\ ppc[t] = "setup"
    /\ \/ /\ Usable(pconn[t])
          /\ conns' = [conns EXCEPT
                          ![pconn[t]].setup_runs = conns[pconn[t]].setup_runs + 1,
                          ![pconn[t]].inserted = TRUE]
          /\ path_pool' = PathPut(preq[t].path, pconn[t])
          /\ path_lock' = NoThread
          /\ ppc' = [ppc EXCEPT ![t] = "post"]
          /\ UNCHANGED <<preq, pconn, pret>>
       \/ /\ PathRaise(t)
          /\ UNCHANGED <<path_pool, conns>>
    /\ UNCHANGED now
    /\ UNCHANGED <<dialectvars, cachevars, parsed>>

\* The rest of patched_connect (connection_pool.py:113-142): LOAD of the
\* declared extensions, the filesystems, apply_config with the non-core
\* keys, and the PooledConnectionWrapper.  A statement on a closed or dead
\* connection raises (the lock is not held here).
patched_return(t, ext, preload) ==
    /\ ppc[t] = "post"
    /\ LET c == pconn[t]
           stmts == preload \/ ext # 0
       IN  \/ /\ stmts => Usable(c)
              /\ conns' = apply_config(load_declared(c, preload), c, ext)
              /\ pret' = [pret EXCEPT ![t] =
                            [kind |-> "pooled", conn |-> c, closed |-> FALSE,
                             ext |-> ext]]
              /\ ppc' = [ppc EXCEPT ![t] = "idle"]
              /\ preq' = [preq EXCEPT ![t] = NoPathReq]
              /\ pconn' = [pconn EXCEPT ![t] = NoConn]
           \/ /\ stmts /\ ~Usable(c)
              /\ ppc' = [ppc EXCEPT ![t] = "idle"]
              /\ pconn' = [pconn EXCEPT ![t] = NoConn]
              /\ pret' = [pret EXCEPT ![t] = Raised]
              /\ UNCHANGED <<preq, conns>>
    /\ UNCHANGED <<path_pool, path_lock, now>>
    /\ UNCHANGED <<dialectvars, cachevars, parsed>>

\* PooledConnectionWrapper.close: self.closed = True  connection_pool.py:133-139
patched_close(t) ==
    /\ ppc[t] = "idle"
    /\ pret[t].kind = "pooled"
    /\ ~pret[t].closed
    /\ pret' = [pret EXCEPT ![t].closed = TRUE]
    /\ UNCHANGED <<path_pool, path_lock, ppc, preq, pconn, now, conns>>
    /\ UNCHANGED <<dialectvars, cachevars, parsed>>

\* The connection of a path stops answering.
PathKill(c) ==
    /\ \E p \in DOMAIN path_pool : path_pool[p] = c
    /\ conns[c].open
    /\ ~conns[c].dead
    /\ conns' = [conns EXCEPT ![c].dead = TRUE]
    /\ UNCHANGED <<now, pathvars, dialectvars, cachevars, parsed>>

\* ------------------------------------------- query_file_download_url

\* `file_path in _download_url_cache`                     client.py:146
InCache(p) ==
    \E i \in 1..Len(download_url_cache) : download_url_cache[i].path = p

\* _download_url_cache[p]: (url, timestamp); read where p is a key.
CacheGet(p) ==
    download_url_cache[CHOOSE i \in 1..Len(download_url_cache) :
                           download_url_cache[i].path = p]

\* del _download_url_cache[p]                        client.py:160, 212
CacheDel(p) ==
    LET Keep(e) == e.path # p IN SelectSeq(download_url_cache, Keep)

\* _download_url_cache[p] = (url, time.time()): a new key goes to the end of
\* the dict, a key that is present keeps its place        client.py:215
CacheSet(p, url) ==
    LET e == [path |-> p, url |-> url, time |-> now]
    IN  IF InCache(p)
        THEN [i \in 1..Len(download_url_cache) |->
                 IF download_url_cache[i].path = p
                 THEN e ELSE download_url_cache[i]]
        ELSE Append(download_url_cache, e)

\* (mutant) an entry whose age has reached the TTL is still served.
Fresh_inclusive(age) == age <= CACHE_TTL_SECONDS

\* `if age_seconds < _CACHE_TTL_SECONDS`                   client.py:150
Fresh(age) == age < CACHE_TTL_SECONDS

\* (mutant) the number of parts asked for is wrong.
TooShort_lenient(parts) == Len(parts) < 2

\* `if len(parts) < 4`                                      client.py:164
TooShort(parts) == Len(parts) < 4

\* (mutant) the cache is held full only once it exceeds its size.
CacheFull_late == Len(download_url_cache) > CACHE_SIZE

\* `if len(_download_url_cache) >= _CACHE_SIZE`             client.py:209
CacheFull == Len(download_url_cache) >= CACHE_SIZE

\* query_file_download_url returns or raises: the locals are gone.
Return(t, kind, url) ==
    /\ cpc' = [cpc EXCEPT ![t] = "idle"]
    /\ cret' = [cret EXCEPT ![t] =
                   [kind |-> kind, url |-> url, path |-> call[t].path]]
    /\ call' = [call EXCEPT ![t] = NoCall]
    /\ cached' = [cached EXCEPT ![t] = NoCached]
    /\ oldest_key' = [oldest_key EXCEPT ![t] = NoPathYet]

\* OpenHexaGraphQLClient.query_file_download_url(file_path) is called; the
\* caller has dropped the result of its previous call.  `answer` is what the
\* service does if this call asks it.                     client.py:138
Query(t, file_path, answer) ==
    /\ cpc[t] = "idle"
    /\ cpc' = [cpc EXCEPT ![t] = "test"]
    /\ call' = [call EXCEPT ![t] = [path |-> file_path, answer |-> answer]]
    /\ cret' = [cret EXCEPT ![t] = NoResult]
    /\ UNCHANGED <<download_url_cache, cached, oldest_key, now>>
    /\ UNCHANGED poolvars
    /\ UNCHANGED pathvars
    /\ UNCHANGED parsed

\* `if file_path in _download_url_cache:`                  client.py:146
Test(t) ==
    /\ cpc[t] = "test"
    /\ cpc' = [cpc EXCEPT ![t] = IF InCache(call[t].path) THEN "read"
                                                          ELSE "fetch"]
    /\ UNCHANGED <<download_url_cache, call, cached, oldest_key, cret, now>>
    /\ UNCHANGED poolvars
    /\ UNCHANGED pathvars
    /\ UNCHANGED parsed

\* (mutant) a hit moves the entry to the end of the dict, as an LRU cache
\* does.
Read_refreshes(t) ==
    /\ cpc[t] = "read"
    /\ IF ~InCache(call[t].path)
       THEN /\ Return(t, "KeyError", NoUrl)
            /\ UNCHANGED download_url_cache
       ELSE LET e == CacheGet(call[t].path)
            IN  IF Fresh(now - e.time)
                THEN /\ Return(t, "hit", e.url)
                     /\ download_url_cache' = Append(CacheDel(call[t].path), e)
                ELSE /\ cpc' = [cpc EXCEPT ![t] = "expire"]
                     /\ cached' = [cached EXCEPT ![t] =
                                      [url |-> e.url, time |-> e.time]]
                     /\ UNCHANGED <<download_url_cache, call, oldest_key, cret>>
    /\ UNCHANGED now
    /\ UNCHANGED poolvars
    /\ UNCHANGED pathvars
    /\ UNCHANGED parsed

\* cached_url, cached_time = _download_url_cache[file_path], which raises
\* KeyError when the key is gone; age_seconds = time.time() - cached_time;
\* a fresh entry is returned                           client.py:147-159
Read(t) ==
    /\ cpc[t] = "read"
    /\ IF ~InCache(call[t].path)
       THEN Return(t, "KeyError", NoUrl)
       ELSE LET e == CacheGet(call[t].path)
            IN  IF Fresh(now - e.time)
                THEN Return(t, "hit", e.url)
                ELSE /\ cpc' = [cpc EXCEPT ![t] = "expire"]
                     /\ cached' = [cached EXCEPT ![t] =
                                      [url |-> e.url, time |-> e.time]]
                     /\ UNCHANGED <<call, oldest_key, cret>>
    /\ UNCHANGED <<download_url_cache, now>>
    /\ UNCHANGED poolvars
    /\ UNCHANGED pathvars
    /\ UNCHANGED parsed

\* (mutant) the purge sweeps every entry that has expired, not only the
\* entry of the path of the call.
Expire_sweeps(t) ==
    /\ cpc[t] = "expire"
    /\ IF InCache(call[t].path)
       THEN /\ download_url_cache' =
                  LET Keep(e) == e.path # call[t].path /\ Fresh(now - e.time)
                  IN  SelectSeq(download_url_cache, Keep)
            /\ cpc' = [cpc EXCEPT ![t] = "fetch"]
            /\ UNCHANGED <<call, cached, oldest_key, cret>>
       ELSE /\ Return(t, "KeyError", NoUrl)
            /\ UNCHANGED download_url_cache
    /\ UNCHANGED now
    /\ UNCHANGED poolvars
    /\ UNCHANGED pathvars
    /\ UNCHANGED parsed

\* del _download_url_cache[file_path], which raises KeyError when the key
\* is gone                                                  client.py:160
Expire(t) ==
    /\ cpc[t] = "expire"
    /\ IF InCache(call[t].path)
       THEN /\ download_url_cache' = CacheDel(call[t].path)
            /\ cpc' = [cpc EXCEPT ![t] = "fetch"]
            /\ UNCHANGED <<call, cached, oldest_key, cret>>
       ELSE /\ Return(t, "KeyError", NoUrl)
            /\ UNCHANGED download_url_cache
    /\ UNCHANGED now
    /\ UNCHANGED poolvars
    /\ UNCHANGED pathvars
    /\ UNCHANGED parsed

\* (mutant) the failure of the service is stored as an answer without URL.
Fetch_caches_failure(t) ==
    /\ cpc[t] = "fetch"
    /\ IF TooShort(call[t].path)
       THEN /\ Return(t, "ValueError", NoUrl)
            /\ UNCHANGED download_url_cache
       ELSE IF call[t].answer = Failure
            THEN /\ Return(t, "failed", NoUrl)
                 /\ download_url_cache' = CacheSet(call[t].path, NoUrl)
            ELSE /\ cpc' = [cpc EXCEPT ![t] = IF CacheFull THEN "oldest"
                                                            ELSE "store"]
                 /\ UNCHANGED <<download_url_cache, call, cached, oldest_key, cret>>
    /\ UNCHANGED now
    /\ UNCHANGED poolvars
    /\ UNCHANGED pathvars
    /\ UNCHANGED parsed

\* The path is validated (ValueError, outside the try), then the service is
\* asked; its failure is caught and None returned.  A call that has its
\* answer tests whether the cache is full.       client.py:163-209, 222-229
Fetch(t) ==
    /\ cpc[t] = "fetch"
    /\ IF TooShort(call[t].path)
       THEN Return(t, "ValueError", NoUrl)
       ELSE IF call[t].answer = Failure
            THEN Return(t, "failed", NoUrl)
            ELSE /\ cpc' = [cpc EXCEPT ![t] = IF CacheFull THEN "oldest"
                                                            ELSE "store"]
                 /\ UNCHANGED <<call, cached, oldest_key, cret>>
    /\ UNCHANGED <<download_url_cache, now>>
    /\ UNCHANGED poolvars
    /\ UNCHANGED pathvars
    /\ UNCHANGED parsed

\* oldest_key = next(iter(_download_url_cache)): the first key in insertion
\* order; StopIteration on an empty dict is caught by `except Exception` and
\* None returned                                       client.py:211, 227-229
Oldest(t) ==
    /\ cpc[t] = "oldest"
    /\ IF Len(download_url_cache) > 0
       THEN /\ oldest_key' = [oldest_key EXCEPT ![t] = download_url_cache[1].path]
            /\ cpc' = [cpc EXCEPT ![t] = "evict"]
            /\ UNCHANGED <<call, cached, cret>>
       ELSE Return(t, "lost", NoUrl)
    /\ UNCHANGED <<download_url_cache, now>>
    /\ UNCHANGED poolvars
    /\ UNCHANGED pathvars
    /\ UNCHANGED parsed

\* del _download_url_cache[oldest_key]; KeyError is caught by
\* `except Exception` and None returned                client.py:212, 227-229
Evict(t) ==
    /\ cpc[t] = "evict"
    /\ IF InCache(oldest_key[t])
       THEN /\ download_url_cache' = CacheDel(oldest_key[t])
            /\ cpc' = [cpc EXCEPT ![t] = "store"]
            /\ UNCHANGED <<call, cached, oldest_key, cret>>
       ELSE /\ Return(t, "lost", NoUrl)
            /\ UNCHANGED download_url_cache
    /\ UNCHANGED now
    /\ UNCHANGED poolvars
    /\ UNCHANGED pathvars
    /\ UNCHANGED parsed

\* (mutant) only a download URL is stored, an answer without one is not.
Store_found_only(t) ==
    /\ cpc[t] = "store"
    /\ download_url_cache' = IF call[t].answer = NoUrl
                             THEN download_url_cache
                             ELSE CacheSet(call[t].path, call[t].answer)
    /\ Return(t, "fetched", call[t].answer)
    /\ UNCHANGED now
    /\ UNCHANGED poolvars
    /\ UNCHANGED pathvars
    /\ UNCHANGED parsed

\* _download_url_cache[file_path] = (download_url, time.time());
\* return download_url                                  client.py:215-220
Store(t) ==
    /\ cpc[t] = "store"
    /\ download_url_cache' = CacheSet(call[t].path, call[t].answer)
    /\ Return(t, "fetched", call[t].answer)
    /\ UNCHANGED now
    /\ UNCHANGED poolvars
    /\ UNCHANGED pathvars
    /\ UNCHANGED parsed

\* ------------------------------------------------- the parts of a file_path

\* The position of the first separator of s (s has one).
FirstSlash(s) ==
    CHOOSE i \in 1..Len(s) :
        s[i] = Slash /\ \A j \in 1..(i - 1) : s[j] # Slash

\* file_path.split("/"): the text between the separators, empty texts
\* included; a text without separator is its own single part   client.py:163
RECURSIVE split(_)
split(s) ==
    IF \A i \in 1..Len(s) : s[i] # Slash
    THEN <<s>>
    ELSE LET i == FirstSlash(s)
         IN  <<SubSeq(s, 1, i - 1)>> \o split(SubSeq(s, i + 1, Len(s)))

\* "/".join(parts)                                             client.py:169
RECURSIVE join(_)
join(parts) ==
    IF Len(parts) = 0 THEN <<>>
    ELSE IF Len(parts) = 1 THEN parts[1]
    ELSE parts[1] \o <<Slash>> \o join(Tail(parts))

\* (mutant) the filename is the fourth part alone.
filename_fourth_part(parts) == parts[4]

\* filename = "/".join(parts[3:])                              client.py:169
filename(parts) == join(SubSeq(parts, 4, Len(parts)))

\* The parsing of query_file_download_url (client.py:162-169) for the path
\* file_path: ValueError for fewer than four parts, else the four values
\* the GraphQL query is sent with (client.py:195-199).
Parse(file_path) ==
    /\ LET parts == split(file_path)
       IN  parsed' =
              IF TooShort(parts)
              THEN [NoParsed EXCEPT !.file_path = file_path,
                                    !.kind = "ValueError"]
              ELSE [file_path |-> file_path, kind |-> "query",
                    workspace_slug |-> parts[1], dataset_slug |-> parts[2],
                    version |-> parts[3], filename |-> filename(parts)]
    /\ UNCHANGED <<now, poolvars, cachevars, pathvars>>

\* ------------------------------------------------------------ specification

\* The steps of the pooled path, with the arguments of connect drawn from U
\* (users), E (ext dicts) and L (preload_extensions declared or not) and the
\* outcome of the UDF registration from F.
PoolStep(U, E, L, F) ==
    \/ \E t \in Threads, user \in U, path \in DbPaths : Connect(t, user, path)
    \/ \E t \in Threads : LookupMiss(t)
    \/ \E t \in Threads : LookupExpired(t)
    \/ \E t \in Threads : LookupReuse(t)
    \/ \E t \in Threads : LookupDead(t)
    \/ \E t \in Threads : Construct(t)
    \/ \E t \in Threads, udf_ok \in F : Setup(t, udf_ok)
    \/ \E t \in Threads, ext \in E, preload \in L : Finish(t, ext, preload)
    \/ \E t \in Threads : WrapperClose(t)
    \/ Tick
    \/ \E c \in ConnIds : Kill(c)

\* The steps of the calls that bypass the pool.
ParentStep ==
    \/ \E t \in Threads, path \in DbPaths : ParentConnect(t, path)
    \/ \E t \in Threads : ParentClose(t)

\* The pool under calls of two users for a database file, without options.
Next == PoolStep(Users, {0}, {FALSE}, {TRUE})

Spec == Init /\ [][Next]_vars

\* One user, calls with and without ext options and declared extensions.
NextOptions == PoolStep({"default"}, ExtVals, BOOLEAN, {TRUE})

SpecOptions == Init /\ [][NextOptions]_vars

\* One user, calls for a database file, for ":memory:" and without a path.
NextBypass == PoolStep({"default"}, {0}, {FALSE}, {TRUE}) \/ ParentStep

SpecBypass == Init /\ [][NextBypass]_vars

\* One user, the UDF registration succeeding or failing.
NextRegistration == PoolStep({"default"}, {0}, {FALSE}, BOOLEAN)

SpecRegistration == Init /\ [][NextRegistration]_vars

\* The steps of query_file_download_url for the callers T, with the paths
\* of the calls drawn from P and the answers of the service from A, and the
\* clock.
CacheStep(T, P, A) ==
    \/ \E t \in T, file_path \in P, answer \in A :
          Query(t, file_path, answer)
    \/ \E t \in T : Test(t)
    \/ \E t \in T : Read(t)
    \/ \E t \in T : Expire(t)
    \/ \E t \in T : Fetch(t)
    \/ \E t \in T : Oldest(t)
    \/ \E t \in T : Evict(t)
    \/ \E t \in T : Store(t)
    \/ Tick

\* One caller at a time: a sequential series of calls.
NextCache == CacheStep({"t1"}, FilePaths, Answers)

SpecCache == Init /\ [][NextCache]_vars

\* Two callers (two DuckDB connections evaluating the UDF) at once, for
\* well-formed paths the service has a URL for.
NextCacheConcurrent == CacheStep(Threads, ValidPaths, {SignedUrl})

SpecCacheConcurrent == Init /\ [][NextCacheConcurrent]_vars

\* One user; the steps of an acquire that wait for nothing but the thread
\* itself are taken eventually.  The probe (SELECT 1), duckdb.connect and the
\* setup statements (INSTALL downloads the extension) wait for an answer
\* from outside with no timeout: nothing makes them return.
NextAcquire == PoolStep({"default"}, {0}, {FALSE}, {TRUE})

AcquireFairness ==
    \A t \in Threads :
        /\ WF_vars(LookupMiss(t))
        /\ WF_vars(LookupExpired(t))
        /\ WF_vars(Finish(t, 0, FALSE))

SpecAcquire == Init /\ [][NextAcquire]_vars /\ AcquireFairness

\* The pool of connection_pool.py under calls of patched_connect, with the
\* core configs of the calls drawn from C, the ext dicts from E and the
\* declared extensions from L.
PathStep(C, E, L) ==
    \/ \E t \in Threads, path \in DbPaths, config \in C :
          patched_connect(t, path, config)
    \/ \E t \in Threads, path \in DbPaths : original_connect(t, path)
    \/ \E t \in Threads : pool_miss(t)
    \/ \E t \in Threads : pool_reuse(t)
    \/ \E t \in Threads : pool_dead(t)
    \/ \E t \in Threads : pool_construct(t)
    \/ \E t \in Threads : pool_setup(t)
    \/ \E t \in Threads, ext \in E, preload \in L : patched_return(t, ext, preload)
    \/ \E t \in Threads : patched_close(t)
    \/ \E c \in ConnIds : PathKill(c)

NextPathPool == PathStep(CoreConfigs, ExtVals, {FALSE})

SpecPathPool == Init /\ [][NextPathPool]_vars

\* Calls of query_file_download_url with every path text, for what the
\* parsing makes of each.
NextParse == \E file_path \in PathTexts : Parse(file_path)

SpecParse == Init /\ [][NextParse]_vars

\* No thread has called the dialect's connect, or patched_connect, yet.
DialectUnused == \A t \in Threads : pc[t] = "idle" /\ ret[t] = NoRet

PathUnused == \A t \in Threads : ppc[t] = "idle" /\ pret[t] = NoRet

\* A process that pools through the dialect (duckdb_oh:// URLs) or through
\* the patched duckdb_engine.Dialect (duckdb:// URLs).  The two pools share
\* no state, each has its own dict and its own lock, so the steps of the one
\* commute with the steps of the other and each pool is explored without
\* the other's steps interleaved.
NextPools ==
    \/ PathUnused /\ PoolStep({"default"}, {0}, {FALSE}, {TRUE})
    \/ DialectUnused /\ PathStep({NoLimits}, {0}, {FALSE})

\* Every step of an acquire is taken once it can be: the threads are
\* scheduled and the calls into DuckDB (the probe, duckdb.connect, the
\* setup statements) come back, with a result or with an exception.
PoolsFairness ==
    \A t \in Threads :
        /\ WF_vars(LookupMiss(t))
        /\ WF_vars(LookupExpired(t))
        /\ WF_vars(LookupReuse(t))
        /\ WF_vars(LookupDead(t))
        /\ WF_vars(Construct(t))
        /\ WF_vars(Setup(t, TRUE))
        /\ WF_vars(pool_miss(t))
        /\ WF_vars(pool_reuse(t))
        /\ WF_vars(pool_dead(t))
        /\ WF_vars(pool_construct(t))
        /\ WF_vars(pool_setup(t))

SpecPools == Init /\ [][NextPools]_vars /\ PoolsFairness

\* ------------------------------------------------------------------ claims

\* The key of the call thread t is in, and the pool entry under it.
KeyOf(t) == <<req[t].user, req[t].path>>

Pooled(k) == k \in DOMAIN connection_pool

\* (only read where the key is present)
EntryOf(t) == connection_pool[KeyOf(t)]

\* "SELECT 1" on c would succeed.
Alive(c) == conns[c].open /\ ~conns[c].dead

\* Thread t is between the entry and the exit of `with cls._pool_lock`.
InCriticalSection(t) == pc[t] \in {"lookup", "construct", "setup"}

\* The connections duckdb.connect has returned so far.
Born == {c \in ConnIds : conns[c].key # Unborn}

\* Thread t looks at an existing entry of its key and takes its step.
LooksAtEntry(t) ==
    /\ pc[t] = "lookup"
    /\ Pooled(KeyOf(t))
    /\ pc'[t] # "lookup"

\* The step returns the pooled connection of the entry and builds nothing.
ReusesEntry(t) ==
    /\ pc'[t] = "post"
    /\ conn'[t] = EntryOf(t).conn
    /\ ~built'[t]
    /\ Born' = Born
    /\ connection_pool' = connection_pool

\* C1 (pool reuse): a call that finds an entry of its key whose age is below
\* the connection TTL and whose probe succeeds returns the connection of that
\* entry, the one the call that built it stored and returned, and constructs
\* nothing; a call that builds returns the connection it stored.
C1_PoolReuse ==
    /\ [](\A t \in Threads :
            (pc[t] = "post" /\ built[t]) =>
                /\ conns[conn[t]].inserted
                /\ conns[conn[t]].key = KeyOf(t)
                /\ conns[conn[t]].setup_runs = 1)
    /\ [][\A t \in Threads :
            ( /\ LooksAtEntry(t)
              /\ now - EntryOf(t).created_at < CONNECTION_TTL_SECONDS
              /\ Alive(EntryOf(t).conn) ) => ReusesEntry(t)]_vars

\* A second call has reused, below the TTL, what a first call built.
C1_Witness ==
    \E t \in Threads :
        /\ pc[t] = "post"
        /\ ~built[t]
        /\ age_seconds[t] < CONNECTION_TTL_SECONDS
        /\ conns[conn[t]].inserted
        /\ Pooled(KeyOf(t))
        /\ EntryOf(t).conn = conn[t]

\* The connections callers hold for key k: a thread back from the acquire, or
\* a PooledConnectionWrapper handed out.
HeldFor(k) ==
    {conn[t] : t \in {u \in Threads : pc[u] = "post" /\ KeyOf(u) = k}}
    \cup {ret[t].conn : t \in {u \in Threads : ret[u].kind = "pooled"
                                              /\ conns[ret[u].conn].key = k}}

\* No eviction (expiry or failed probe) has happened under key k.
NoEviction(k) == \A c \in ConnIds : conns[c].key = k => ~conns[c].evicted

\* C2 (concurrent single creation): at most one thread at a time is between
\* the lookup and the insertion, and as long as no entry of a key has expired
\* or failed its probe, at most one connection was ever stored under the key
\* and every caller of that key holds that one connection.
C2_SingleCreation ==
    /\ \A t1, t2 \in Threads :
          (InCriticalSection(t1) /\ InCriticalSection(t2)) => t1 = t2
    /\ \A t \in Threads : InCriticalSection(t) <=> pool_lock = t
    /\ \A k \in PoolKeys :
          NoEviction(k) =>
             /\ Cardinality({c \in ConnIds : conns[c].key = k /\ conns[c].inserted}) <= 1
             /\ Cardinality(HeldFor(k)) <= 1
             /\ \A c \in HeldFor(k) : conns[c].inserted /\ conns[c].key = k

\* Both threads called with the same absent key; one built, both hold it.
C2_Witness ==
    \E t1, t2 \in Threads :
        /\ t1 # t2
        /\ pc[t1] = "post" /\ pc[t2] = "post"
        /\ KeyOf(t1) = KeyOf(t2)
        /\ built[t1] /\ ~built[t2]
        /\ conn[t1] = conn[t2]
        /\ NoEviction(KeyOf(t1))

\* C3 (recreation on death): a call whose probe of the pooled connection
\* fails does not raise for it: it removes the entry and goes on to build; a
\* call that builds stores and returns a connection that was never in the
\* pool before; no acquire ever returns a connection the pool has evicted.
C3_RecreateOnDeath ==
    /\ [][\A t \in Threads :
            ( /\ LooksAtEntry(t)
              /\ now - EntryOf(t).created_at <= CONNECTION_TTL_SECONDS
              /\ ~Alive(EntryOf(t).conn) ) =>
                 /\ pc'[t] = "construct"
                 /\ ret'[t].kind # "raised"
                 /\ KeyOf(t) \notin DOMAIN connection_pool'
                 /\ conns'[EntryOf(t).conn].evicted]_vars
    /\ [][\A t \in Threads :
            (pc[t] # "post" /\ pc'[t] = "post") =>
                 /\ ~conns'[conn'[t]].evicted
                 /\ KeyOf(t) \in DOMAIN connection_pool'
                 /\ connection_pool'[KeyOf(t)].conn = conn'[t]
                 /\ built'[t] => ~conns[conn'[t]].inserted]_vars

\* A call found the pooled connection dead and came back with a new one.
C3_Witness ==
    \E t \in Threads, c \in ConnIds :
        /\ pc[t] = "post"
        /\ built[t]
        /\ conns[c].key = KeyOf(t)
        /\ conns[c].evicted /\ conns[c].dead /\ conns[c].open
        /\ conn[t] # c
        /\ Pooled(KeyOf(t))
        /\ EntryOf(t).conn = conn[t]

\* What the claim says of a call that finds an entry: it reuses it iff the
\* entry is young (`young` is the comparison of its age with the TTL) and
\* the probe succeeds, and
\* otherwise removes it and goes on to build under the same key.
ReuseIff(t, young) ==
    LooksAtEntry(t) =>
        IF young /\ Alive(EntryOf(t).conn)
        THEN ReusesEntry(t)
        ELSE /\ pc'[t] = "construct"
             /\ KeyOf(t) \notin DOMAIN connection_pool'
             /\ conns'[EntryOf(t).conn].evicted

\* C4 as stated: reuse iff now - createdAt < connectionTTL and the probe
\* succeeds; at age = connectionTTL the entry is removed.
C4_Original ==
    [][\A t \in Threads :
         ReuseIff(t, now - EntryOf(t).created_at < CONNECTION_TTL_SECONDS)]_vars

\* C4 (reuse eligibility), amended: reuse iff now - createdAt <=
\* connectionTTL and the probe succeeds (an entry of age exactly
\* connectionTTL is still reused); in every other case the entry is removed
\* and the call goes on to build a new connection under the same key.
C4_ReuseEligibility ==
    [][\A t \in Threads :
         ReuseIff(t, now - EntryOf(t).created_at <= CONNECTION_TTL_SECONDS)]_vars

\* An entry of age exactly connectionTTL was reused.
C4_Witness ==
    \E t \in Threads :
        /\ pc[t] = "post"
        /\ ~built[t]
        /\ age_seconds[t] = CONNECTION_TTL_SECONDS

\* C5 (wrapper close is inert): close() of a PooledConnectionWrapper sets the
\* wrapper's closed flag and nothing else: every connection and the pool map
\* are as before; and a later call of the same key that finds the entry
\* young and alive reuses the connection of the closed wrapper.
C5_CloseIsInert ==
    /\ [][\A t \in Threads :
            (ret[t].kind = "pooled" /\ ~ret[t].closed /\ ret'[t].closed) =>
                 /\ conns' = conns
                 /\ connection_pool' = connection_pool
                 /\ pool_lock' = pool_lock
                 /\ ret'[t] = [ret[t] EXCEPT !.closed = TRUE]]_vars
    /\ [][\A t, u \in Threads :
            ( /\ LooksAtEntry(t)
              /\ ret[u].kind = "pooled" /\ ret[u].closed
              /\ ret[u].conn = EntryOf(t).conn
              /\ now - EntryOf(t).created_at <= CONNECTION_TTL_SECONDS
              /\ Alive(EntryOf(t).conn) ) => ReusesEntry(t)]_vars

\* A wrapper was closed and a later call got its connection from the pool.
C5_Witness ==
    \E t, u \in Threads :
        /\ ret[u].kind = "pooled" /\ ret[u].closed
        /\ pc[t] = "post" /\ ~built[t]
        /\ conn[t] = ret[u].conn
        /\ Alive(conn[t])

\* C6 as stated (destruction on eviction): every connection the pool has
\* evicted, for its age or for a failed probe, has been closed.
C6_EvictedIsClosed ==
    \A c \in ConnIds : conns[c].evicted => ~conns[c].open

\* C7 (construction failure): while a call is on the creation path its key
\* has no entry (a stale or dead one was removed before), and when
\* duckdb.connect or the setup raises, the caller gets the exception, the
\* lock is released and the key still has no entry.
C7_ConstructionFailure ==
    /\ [](\A t \in Threads :
            pc[t] \in {"construct", "setup"} => ~Pooled(KeyOf(t)))
    /\ [][\A t \in Threads :
            ( /\ pc[t] \in {"construct", "setup"}
              /\ pc'[t] \notin {"construct", "setup", "post"} ) =>
                 /\ ret'[t].kind = "raised"
                 /\ KeyOf(t) \notin DOMAIN connection_pool'
                 /\ pool_lock' = NoThread]_vars

\* A call removed the only connection there is from the pool and its
\* construction raised: every call has ended and the pool is empty.
C7_Witness ==
    \E t \in Threads, c \in ConnIds :
        /\ \A u \in Threads : pc[u] = "idle"
        /\ ret[t].kind = "raised"
        /\ KeyOf(t) = conns[c].key
        /\ Born = {c}
        /\ conns[c].evicted
        /\ DOMAIN connection_pool = {}

C9_MemoryBypass ==
    /\ [](\A t \in Threads :
            pc[t] # "idle" => req[t].path \notin {MemoryPath, NoPath})
    /\ [](\A k \in DOMAIN connection_pool : k[2] \notin {MemoryPath, NoPath})
    /\ [](\A t \in Threads :
            ret[t].kind = "parent" =>
                /\ conns[ret[t].conn].key = ParentKey
                /\ \A k \in DOMAIN connection_pool :
                      connection_pool[k].conn # ret[t].conn
                /\ \A u \in Threads \ {t} :
                      ret[u].conn # ret[t].conn /\ conn[u] # ret[t].conn)
    /\ [][\A t \in Threads :
            (ret'[t].kind = "parent" /\ ret'[t].conn # ret[t].conn) =>
                 /\ connection_pool' = connection_pool
                 /\ pool_lock' = pool_lock
                 /\ ret'[t].conn \notin Born
                 /\ ~ret'[t].closed]_vars

\* Two calls that bypass the pool were served, each with a connection of its
\* own.
C9_Witness ==
    \E t1, t2 \in Threads :
        /\ ret[t1].kind = "parent" /\ ret[t2].kind = "parent"
        /\ ret[t1].conn # ret[t2].conn
        /\ conns[ret[t1].conn].open /\ conns[ret[t2].conn].open

\* C10 (per-request options): every connect call for a pooled path that
\* returns a wrapper has applied its ext options to the connection it wraps,
\* whether it built the connection or reused it.
C10_PerRequestOptions ==
    [][\A t \in Threads :
         (pc[t] = "post" /\ ret'[t].kind = "pooled") =>
             /\ ret'[t].conn = conn[t]
             /\ ret'[t].ext # 0 => conns'[conn[t]].cfg = ret'[t].ext]_vars

\* A call with options reused the connection another call had built.
C10_Witness ==
    \E t, u \in Threads :
        /\ pc[u] = "post" /\ built[u]
        /\ ret[t].kind = "pooled"
        /\ ret[t].conn = conn[u]
        /\ ret[t].ext # 0
        /\ conns[conn[u]].cfg = ret[t].ext

\* ------------------------------------------- claims: the download-URL cache

\* The path of the call thread t is in, and the age of the entry of a path
\* (read only where the path is a key).
PathOf(t) == call[t].path

EntryAge(p) == now - CacheGet(p).time

\* Thread t takes the step of its call that reads the entry of its path.
ReadsEntry(t) ==
    /\ cpc[t] = "read"
    /\ cpc'[t] # "read"
    /\ InCache(PathOf(t))

\* C11 (cache TTL): a call that reads an entry of its path of age < TTL
\* returns the cached value at that step, with no external call and the cache
\* unchanged; a call that reads an entry of age >= TTL does not return it and
\* removes it as its next step, before the service is asked; if the
\* re-resolution then fails the path is not a key afterwards.  No call
\* returns a cached value of age >= TTL.
C11_CacheTTL ==
    /\ [][\A t \in Threads :
            ReadsEntry(t) =>
               IF EntryAge(PathOf(t)) < CACHE_TTL_SECONDS
               THEN /\ cpc'[t] = "idle"
                    /\ cret'[t] = [kind |-> "hit", path |-> PathOf(t),
                                   url |-> CacheGet(PathOf(t)).url]
                    /\ download_url_cache' = download_url_cache
               ELSE /\ cpc'[t] = "expire"
                    /\ cret'[t] = cret[t]]_vars
    /\ [][\A t \in Threads :
            (cpc[t] = "expire" /\ cpc'[t] # "expire") =>
                /\ cpc'[t] = "fetch"
                /\ download_url_cache' = CacheDel(PathOf(t))
                /\ Len(download_url_cache') = Len(download_url_cache) - 1]_vars
    /\ [][\A t \in Threads :
            (cpc[t] # "idle" /\ cret'[t].kind = "failed") =>
                /\ cpc[t] = "fetch"
                /\ ~InCache(PathOf(t))
                /\ download_url_cache' = download_url_cache]_vars
    /\ [][\A t \in Threads :
            (cpc[t] # "idle" /\ cret'[t].kind = "hit") =>
                /\ ReadsEntry(t)
                /\ EntryAge(PathOf(t)) < CACHE_TTL_SECONDS]_vars

\* A call read an entry of its path whose age had reached the TTL and purged
\* it; it is about to ask the service, which fails it.
C11_Witness ==
    \E t \in Threads :
        /\ cpc[t] = "fetch"
        /\ cached[t] # NoCached
        /\ now - cached[t].time = CACHE_TTL_SECONDS
        /\ ~InCache(PathOf(t))
        /\ call[t].answer = Failure

\* The entries are in the order of their insertion: no key twice, the
\* timestamps never decrease along the dict.
InInsertionOrder(cache) ==
    \A i, j \in 1..Len(cache) :
        i < j => cache[i].path # cache[j].path /\ cache[i].time <= cache[j].time

\* C12 (cache bound): in a sequential series of calls the cache never holds
\* more than maxEntries entries; an eviction happens only on a full cache,
\* removes exactly one entry, the first in insertion order (no surviving
\* entry was inserted before it), and the insertion that follows appends the
\* new key, which is not yet a key, at the end.
C12_CacheBound ==
    /\ [](Len(download_url_cache) <= CACHE_SIZE)
    /\ [](InInsertionOrder(download_url_cache))
    /\ [](\A t \in Threads :
            /\ cpc[t] \in {"oldest", "evict"} =>
                  Len(download_url_cache) = CACHE_SIZE
            /\ cpc[t] = "store" =>
                  /\ Len(download_url_cache) < CACHE_SIZE
                  /\ ~InCache(PathOf(t)))
    /\ [][\A t \in Threads :
            (cpc[t] = "evict" /\ cpc'[t] # "evict") =>
                /\ cpc'[t] = "store"
                /\ oldest_key[t] = download_url_cache[1].path
                /\ download_url_cache' = Tail(download_url_cache)]_vars
    /\ [][\A t \in Threads :
            (cpc[t] = "store" /\ cpc'[t] # "store") =>
                download_url_cache' =
                    Append(download_url_cache,
                           [path |-> PathOf(t), url |-> call[t].answer,
                            time |-> now])]_vars

\* With room for two: files 1, 2, 3 were resolved in this order; 1 has been
\* evicted, 2 is there and 3 is about to be stored.
C12_Witness ==
    \E t \in Threads :
        /\ cpc[t] = "store"
        /\ oldest_key[t] = <<"w", "d", "v", 1>>
        /\ PathOf(t) = <<"w", "d", "v", 3>>
        /\ ~InCache(oldest_key[t])
        /\ Len(download_url_cache) = CACHE_SIZE - 1
        /\ download_url_cache[Len(download_url_cache)].path = <<"w", "d", "v", 2>>

C14_NegativeCaching ==
    /\ [][\A t \in Threads, p \in ValidPaths :
            (cpc[t] = "store" /\ cpc'[t] # "store" /\ p = PathOf(t)
               /\ call[t].answer = NoUrl) =>
                /\ InCache(p)'
                /\ CacheGet(p)' = [path |-> p, url |-> NoUrl, time |-> now]
                /\ cret'[t] = [kind |-> "fetched", url |-> NoUrl, path |-> p]]_vars
    /\ [][\A t \in Threads :
            ( /\ ReadsEntry(t)
              /\ CacheGet(PathOf(t)).url = NoUrl
              /\ EntryAge(PathOf(t)) < CACHE_TTL_SECONDS ) =>
                /\ cpc'[t] = "idle"
                /\ cret'[t] = [kind |-> "hit", url |-> NoUrl, path |-> PathOf(t)]
                /\ download_url_cache' = download_url_cache]_vars
    /\ [](\A t \in Threads : cpc[t] = "fetch" => ~InCache(PathOf(t)))

\* The last call got the absent marker from the cache, one tick after it was
\* stored.
C14_Witness ==
    \E t \in Threads :
        /\ cpc[t] = "idle"
        /\ cret[t].kind = "hit"
        /\ cret[t].url = NoUrl
        /\ InCache(cret[t].path)
        /\ CacheGet(cret[t].path).url = NoUrl
        /\ CacheGet(cret[t].path).time < now

\* C15 (transient failure is not cached): a call whose external call fails
\* returns absent without raising and stores nothing: its path is no key
\* when it returns and stays none until the next call, whose membership test
\* then sends it to the service again.
C15_FailureNotCached ==
    /\ [][\A t \in Threads, p \in ValidPaths :
            (cpc[t] = "fetch" /\ cpc'[t] # "fetch" /\ p = PathOf(t)
               /\ call[t].answer = Failure) =>
                /\ cpc'[t] = "idle"
                /\ cret'[t] = [kind |-> "failed", url |-> NoUrl, path |-> p]
                /\ download_url_cache' = download_url_cache
                /\ ~InCache(p)']_vars
    /\ [](\A t \in Threads :
            (cpc[t] = "idle" /\ cret[t].kind = "failed") =>
                ~InCache(cret[t].path))
    /\ [][\A t \in Threads :
            (cpc[t] = "test" /\ cpc'[t] # "test" /\ ~InCache(PathOf(t))) =>
                cpc'[t] = "fetch"]_vars

\* The external call of the last call failed while the cache held other
\* paths: the path of the call is no key.
C15_Witness ==
    \E t \in Threads :
        /\ cpc[t] = "idle"
        /\ cret[t].kind = "failed"
        /\ cret[t].path \in ValidPaths
        /\ Len(download_url_cache) = CACHE_SIZE
        /\ ~InCache(cret[t].path)

\* Thread t is in a call the service fails if asked.
FailingCall(t) == cpc[t] # "idle" /\ call[t].answer = Failure

\* C16 as stated: whatever the cache holds, a call whose external call fails
\* leaves the entries of the cache exactly as they were.
C16_Original ==
    [][\A t \in Threads :
         FailingCall(t) => download_url_cache' = download_url_cache]_vars

\* C16 (failed resolution and the cache), amended: a call whose external
\* call fails leaves the entries of the cache as they were, except that an
\* expired entry of the path of the call, which the call has read, is
\* removed before the service is asked; the failure itself changes nothing.
C16_FailureLeavesCache ==
    /\ [][\A t \in Threads :
            FailingCall(t) =>
               \/ download_url_cache' = download_url_cache
               \/ /\ cpc[t] = "expire"
                  /\ InCache(PathOf(t))
                  /\ EntryAge(PathOf(t)) >= CACHE_TTL_SECONDS
                  /\ download_url_cache' = CacheDel(PathOf(t))]_vars
    /\ [][\A t \in Threads :
            (cpc[t] # "idle" /\ cret'[t].kind = "failed") =>
                download_url_cache' = download_url_cache]_vars
    /\ [](\A t \in Threads :
            (cpc[t] = "fetch" /\ cached[t] # NoCached) =>
                /\ now - cached[t].time >= CACHE_TTL_SECONDS
                /\ ~InCache(PathOf(t)))

\* A call the service will fail has purged the expired URL of its path from
\* a full cache; the other entry is still there.
C16_Witness ==
    \E t \in Threads :
        /\ cpc[t] = "fetch"
        /\ call[t].answer = Failure
        /\ cached[t] # NoCached
        /\ cached[t].url = SignedUrl
        /\ Len(download_url_cache) = CACHE_SIZE - 1

\* Thread t is in a call with a path of fewer than four parts.
ShortCall(t) == cpc[t] # "idle" /\ Len(PathOf(t)) < 4

\* C17 as stated: a call with a path of fewer than four parts fails with the
\* validation error before anything else: the first step it takes raises it.
C17_Original ==
    [][\A t \in Threads :
         (ShortCall(t) /\ cpc'[t] # cpc[t]) => cret'[t].kind = "ValueError"]_vars

\* C17 (path validation), amended: a call with a path of fewer than four
\* parts first tests whether the path is a key of the cache, which it never
\* is, and then fails with the validation error, before any other read of
\* the cache, any write of it and any external call: the cache is unchanged.
C17_ValidationBeforeWork ==
    /\ [](\A i \in 1..Len(download_url_cache) :
            Len(download_url_cache[i].path) >= 4)
    /\ [](\A t \in Threads : ShortCall(t) => cpc[t] \in {"test", "fetch"})
    /\ [][\A t \in Threads :
            ShortCall(t) =>
               /\ download_url_cache' = download_url_cache
               /\ cpc'[t] = "idle" =>
                     /\ cpc[t] = "fetch"
                     /\ cret'[t] = [kind |-> "ValueError", url |-> NoUrl,
                                    path |-> PathOf(t)]]_vars

\* The last call had a short path and raised; the cache is full.
C17_Witness ==
    \E t \in Threads :
        /\ cpc[t] = "idle"
        /\ cret[t].kind = "ValueError"
        /\ cret[t].path = ShortPath
        /\ Len(download_url_cache) = CACHE_SIZE

\* ----------------------------------------- claims: concurrency of the cache

\* C18 as stated (cache atomicity), in the consequence the claim names: the
\* check-then-evict-then-insert steps of a call are atomic with respect to
\* the cache steps of every other call, so that under every interleaving of
\* concurrent calls the cache holds at most maxEntries entries.
C18_CacheAtomic == Len(download_url_cache) <= CACHE_SIZE

\* C19 as stated (bookkeeping errors are never surfaced): under every
\* interleaving no call raises KeyError from the cache and no call whose
\* external call succeeded returns None because an exception of the
\* eviction was caught: a call with a valid path the service answers returns
\* the cached or the resolved value.
C19_NoBookkeepingError ==
    \A t \in Threads :
        /\ cret[t].kind \notin {"KeyError", "lost"}
        /\ (cpc[t] = "idle" /\ cret[t].kind # "none") =>
              /\ cret[t].kind \in {"hit", "fetched"}
              /\ cret[t].url = SignedUrl

\* C20 as stated (no indefinite block): every acquire that has entered
\* _get_or_create_connection eventually leaves it, with a connection or an
\* error, so the pool lock is always released and no caller waits for it
\* forever.
C20_NoIndefiniteBlock ==
    \A t \in Threads : InCriticalSection(t) ~> ~InCriticalSection(t)

\* -------------------------------------------- claims: the pool, continued

\* C21 as stated (UDF registration): every connection the pool holds, and
\* every connection _get_or_create_connection has returned to a call, has
\* get_dataset_file_url registered on it; a connection whose registration
\* failed is neither stored nor returned.
C21_UdfRegistered ==
    /\ \A k \in DOMAIN connection_pool : conns[connection_pool[k].conn].udf
    /\ \A t \in Threads : pc[t] = "post" => conns[conn[t]].udf

\* C22 as stated (resource limits at construction only): every connection
\* that is or was in a pool was constructed with the resource limits of the
\* process, so each limit the environment sets has a value on it (the
\* environment's, or the caller's where the caller's core config overrides
\* it); and no later step, a reusing acquire included, changes the limits of
\* a connection that has been stored.
C22_LimitsAtConstruction ==
    /\ [](\A c \in ConnIds :
            conns[c].inserted =>
                \A k \in LimitKeys :
                    Environment[k] # Unset => conns[c].limits[k] # Unset)
    /\ [][\A c \in ConnIds :
            conns[c].inserted => conns'[c].limits = conns[c].limits]_vars

\* ------------------------------------------------ claims: path decomposition

\* The positions of the separators of a text, and its k-th separator.
Slashes(s) == {i \in 1..Len(s) : s[i] = Slash}

NthSlash(s, k) ==
    CHOOSE i \in Slashes(s) : Cardinality({j \in Slashes(s) : j <= i}) = k

\* C23 (path decomposition): a path with at least four segments (at least
\* three separators) is not rejected; its workspace is the text before the
\* first separator, its dataset the text between the first and the second,
\* its version the text between the second and the third, its filename
\* everything after the third, further separators included; the four joined
\* with '/' are the path.  (A path with fewer segments is rejected.)
C23_PathDecomposition ==
    LET s == parsed.file_path IN
    /\ (parsed.kind # "none" /\ Cardinality(Slashes(s)) >= 3) =>
          LET p1 == NthSlash(s, 1)
              p2 == NthSlash(s, 2)
              p3 == NthSlash(s, 3)
          IN  /\ parsed.kind = "query"
              /\ parsed.workspace_slug = SubSeq(s, 1, p1 - 1)
              /\ parsed.dataset_slug = SubSeq(s, p1 + 1, p2 - 1)
              /\ parsed.version = SubSeq(s, p2 + 1, p3 - 1)
              /\ parsed.filename = SubSeq(s, p3 + 1, Len(s))
              /\ parsed.workspace_slug \o <<Slash>> \o parsed.dataset_slug
                    \o <<Slash>> \o parsed.version \o <<Slash>>
                    \o parsed.filename = s
    /\ (parsed.kind # "none" /\ Cardinality(Slashes(s)) < 3) =>
          parsed.kind = "ValueError"

\* A path of five segments was parsed: its filename holds a separator.
C23_Witness ==
    /\ parsed.kind = "query"
    /\ Cardinality(Slashes(parsed.file_path)) = 4
    /\ \E i \in 1..Len(parsed.filename) : parsed.filename[i] = Slash
    /\ parsed.workspace_slug # <<>>
    /\ parsed.version # parsed.dataset_slug

\* ----------------------------------------------------- claims: the pool keys

\* The entry of key k is removed, replaced or its connection closed by the
\* step.
EntryTouched(k) ==
    /\ Pooled(k)
    /\ \/ k \notin DOMAIN connection_pool'
       \/ connection_pool'[k] # connection_pool[k]
       \/ conns[connection_pool[k].conn].open
             /\ ~conns'[connection_pool[k].conn].open

\* C24 (key isolation): the connection an acquire returns was built for the
\* key (user_id, database_path) of the call and the wrapper of the call
\* wraps that connection, so calls of different keys (two users of one
\* database path) never hold the same connection; every entry holds a
\* connection built for its key; and only a call of key k, holding the lock,
\* removes, closes, replaces or adds the entry of k.
C24_KeyIsolation ==
    /\ [](\A t \in Threads :
            pc[t] = "post" => conns[conn[t]].key = KeyOf(t))
    /\ [](\A t, u \in Threads :
            (pc[t] = "post" /\ pc[u] = "post" /\ KeyOf(t) # KeyOf(u)) =>
                conn[t] # conn[u])
    /\ [](\A k \in DOMAIN connection_pool :
            conns[connection_pool[k].conn].key = k)
    /\ [][\A t \in Threads :
            (pc[t] = "post" /\ ret'[t].kind = "pooled") =>
                conns[ret'[t].conn].key = KeyOf(t)]_vars
    /\ [][\A k \in PoolKeys :
            (EntryTouched(k) \/ (~Pooled(k) /\ k \in DOMAIN connection_pool')) =>
                \E t \in Threads : pool_lock = t /\ KeyOf(t) = k]_vars

\* Two users called for the same database path and each holds a pooled
\* connection of its own key.
C24_Witness ==
    \E t, u \in Threads :
        /\ pc[t] = "post" /\ pc[u] = "post"
        /\ req[t].user # req[u].user
        /\ req[t].path = req[u].path
        /\ conn[t] # conn[u]
        /\ Pooled(KeyOf(t)) /\ Pooled(KeyOf(u))
        /\ EntryOf(t).conn = conn[t]
        /\ EntryOf(u).conn = conn[u]

\* ------------------------------------------------ claims: borrowed connections

\* C25 as stated (borrowed connections stay open): the connection of every
\* PooledConnectionWrapper whose close() has not been called is open: the
\* pool has not closed it.
C25_BorrowedStayOpen ==
    \A t \in Threads :
        (ret[t].kind = "pooled" /\ ~ret[t].closed) => conns[ret[t].conn].open

\* ---------------------------------------------------- claims: creation time

\* C26 (creation time is not refreshed): the created_at of an entry is the
\* time its connection was stored and no step changes it while the entry
\* holds that connection, a reusing acquire least of all, which leaves the
\* whole pool map as it was; so an acquire that finds its entry when
\* now > created_at + TTL, however often the entry was reused, removes it and
\* goes on to construct, and no acquire returns without building when the
\* age it measured from created_at is above the TTL.
C26_CreatedAtNotRefreshed ==
    /\ [][\A t \in Threads :
            (LooksAtEntry(t) /\ pc'[t] = "post") =>
                connection_pool' = connection_pool]_vars
    /\ [][\A k \in PoolKeys :
            (k \in DOMAIN connection_pool') =>
                IF Pooled(k) /\ connection_pool'[k].conn = connection_pool[k].conn
                THEN connection_pool'[k].created_at = connection_pool[k].created_at
                ELSE connection_pool'[k].created_at = now]_vars
    /\ [][\A t \in Threads :
            (LooksAtEntry(t) /\ now > EntryOf(t).created_at + CONNECTION_TTL_SECONDS) =>
                /\ pc'[t] = "construct"
                /\ KeyOf(t) \notin DOMAIN connection_pool'
                /\ conns'[EntryOf(t).conn].evicted
                /\ ~conns'[EntryOf(t).conn].open]_vars
    /\ [](\A t \in Threads :
            (pc[t] = "post" /\ ~built[t]) =>
                age_seconds[t] <= CONNECTION_TTL_SECONDS)

\* A call reused a connection some time after it was built; the next call,
\* made after created_at + TTL, evicted that connection and built another.
C26_Witness ==
    \E t, u \in Threads :
        /\ t # u
        /\ KeyOf(t) = KeyOf(u)
        /\ pc[u] = "post" /\ ~built[u] /\ age_seconds[u] > 0
        /\ conns[conn[u]].evicted /\ ~conns[conn[u]].open
        /\ pc[t] = "post" /\ built[t]
        /\ age_seconds[t] > CONNECTION_TTL_SECONDS
        /\ conn[t] # conn[u]
        /\ Pooled(KeyOf(t))
        /\ EntryOf(t).conn = conn[t]
        /\ EntryOf(t).created_at = now

\* ------------------------------------------------------ claims: the lock

\* Thread t is between the entry and the exit of `with _pool_lock` of
\* get_or_create_connection (connection_pool.py).
PathInCriticalSection(t) == ppc[t] \in {"lookup", "construct", "setup"}

\* C27 (the pool lock is always released), for the lock of either pool: the
\* lock is held exactly by the thread that is inside the acquire; the step
\* that ends an acquire, by returning a reused connection, by returning a
\* new one, or by raising from duckdb.connect or from the setup, leaves the
\* lock free; and after an acquire has failed, an acquire that is under way
\* comes to its end and gives the lock back.
C27_LockReleased ==
    /\ [](\A t \in Threads :
            /\ InCriticalSection(t) <=> pool_lock = t
            /\ PathInCriticalSection(t) <=> path_lock = t)
    /\ [][\A t \in Threads :
            /\ (InCriticalSection(t) /\ ~InCriticalSection(t)') =>
                  /\ pool_lock' = NoThread
                  /\ pc'[t] = "post" \/ ret'[t].kind = "raised"
            /\ (PathInCriticalSection(t) /\ ~PathInCriticalSection(t)') =>
                  /\ path_lock' = NoThread
                  /\ ppc'[t] = "post" \/ pret'[t].kind = "raised"]_vars
    /\ \A t, u \in Threads :
          /\ (ret[t].kind = "raised" /\ InCriticalSection(u)) ~>
                (~InCriticalSection(u) /\ pool_lock # u)
          /\ (pret[t].kind = "raised" /\ PathInCriticalSection(u)) ~>
                (~PathInCriticalSection(u) /\ path_lock # u)

\* The acquire of t found no entry and its construction raised; after it the
\* acquire of u for the same key took the lock, built the connection of the
\* key and gave the lock back.
C27_Witness ==
    \E t, u \in Threads :
        /\ ret[t].kind = "raised" /\ pc[t] = "idle"
        /\ KeyOf(t) = KeyOf(u)
        /\ NoEviction(KeyOf(u))
        /\ pc[u] = "post" /\ built[u]
        /\ pool_lock = NoThread

\* ------------------------------------------- claims: half-built connections

\* The threads and wrappers, other than thread t itself, that refer to
\* connection c.
OthersHolding(t, c) ==
    {u \in Threads \ {t} :
        conn[u] = c \/ pconn[u] = c \/ ret[u].conn = c \/ pret[u].conn = c}

\* C28 (no half-built connection is visible), for either pool: every
\* connection in a pool map has been through the whole construction-time
\* setup, once, and so has every connection an acquire has returned; while
\* a thread is between duckdb.connect and the end of the setup, its new
\* connection is in no pool map and no other thread or wrapper refers to it.
C28_NoHalfBuilt ==
    /\ \A k \in DOMAIN connection_pool :
          /\ conns[connection_pool[k].conn].setup_runs = 1
          /\ conns[connection_pool[k].conn].inserted
    /\ \A p \in DOMAIN path_pool :
          /\ conns[path_pool[p]].setup_runs = 1
          /\ conns[path_pool[p]].inserted
    /\ \A t \in Threads :
          /\ pc[t] = "post" => conns[conn[t]].setup_runs = 1
          /\ ppc[t] = "post" => conns[pconn[t]].setup_runs = 1
          /\ pc[t] = "setup" =>
                /\ conns[conn[t]].setup_runs = 0
                /\ \A k \in DOMAIN connection_pool :
                      connection_pool[k].conn # conn[t]
                /\ OthersHolding(t, conn[t]) = {}
          /\ ppc[t] = "setup" =>
                /\ conns[pconn[t]].setup_runs = 0
                /\ \A p \in DOMAIN path_pool : path_pool[p] # pconn[t]
                /\ OthersHolding(t, pconn[t]) = {}

\* A thread is setting up the new connection of a path while another thread
\* is back from an acquire of the same path with the connection the pool
\* had before.
C28_Witness ==
    \E t, u \in Threads :
        /\ ppc[t] = "setup"
        /\ conns[pconn[t]].open
        /\ conns[pconn[t]].setup_runs = 0
        /\ preq[t].path \notin DOMAIN path_pool
        /\ ppc[u] = "post"
        /\ preq[u].path = preq[t].path
        /\ pconn[u] # pconn[t]
        /\ conns[pconn[u]].setup_runs = 1

=============================================================================
